---- MODULE Spec2Model ----
(***************************************************************************)
(* A model of the dcgrants repository:                                     *)
(*   - MerkleGrantRoundPayout.sol : the on-chain claim ledger              *)
(*   - the grant synchroniser (getAllGrants, grantListener)                *)
(*   - the whitelist filter (getApprovedGrants)                            *)
(* Each component has its own specification (SpecPayout, SpecSync,         *)
(* SpecWhitelist) over the one set of variables.                           *)
(***************************************************************************)
EXTENDS Integers, Sequences, FiniteSets, TLC

VARIABLES
  \* --- MerkleGrantRoundPayout ---
  token,            \* IERC20 public immutable token
  merkleRoot,       \* bytes32 public immutable merkleRoot
  claimedBitMap,    \* mapping(uint256 => uint256): word index -> 256-bit word
  contractBalance,  \* token.balanceOf(address(this))
  payeeBalance,     \* token.balanceOf(payee)
  events,           \* the log of Claimed events, oldest first
  paidCount,        \* history: number of token transfers made for each index
  lastTx,           \* history: the last transaction sent and how it ended
  \* --- the chain the app reads (GrantRegistry events) ---
  chain,            \* the GrantCreated / GrantUpdated events emitted, oldest first
  head,             \* the current block number
  \* --- the app ---
  subgraphUrl,      \* SUBGRAPH_URL is configured
  whitelistUrl,     \* VITE_GRANT_WHITELIST_URI is configured
  localForage,      \* the local storage: keys allGrants and whitelist
  refs,             \* the Vue refs grantListener writes: grants, approvedGrants, approvedGrantsPk
  delivered,        \* positions of chain whose event the listener has been called for
  lastSync,         \* history: the last getAllGrants call or listener callback
  lastWl,           \* history: the last getApprovedGrants call
  inflight          \* the getAllGrants calls and listener callbacks that have read the
                    \* cache and are awaiting remote I/O

payoutVars == <<token, merkleRoot, claimedBitMap, contractBalance, payeeBalance,
                events, paidCount, lastTx>>

chainVars == <<chain, head>>

appVars == <<subgraphUrl, whitelistUrl, localForage, refs, delivered, lastSync, lastWl,
             inflight>>

vars == <<token, merkleRoot, claimedBitMap, contractBalance, payeeBalance,
          events, paidCount, lastTx, chain, head, subgraphUrl, whitelistUrl,
          localForage, refs, delivered, lastSync, lastWl, inflight>>

(***************************************************************************)
(* Bounds                                                                  *)
(***************************************************************************)
MaxBatchLen == 2      \* longest array handed to batchClaim
MaxBalance == 3       \* most tokens the contract is ever funded to hold
MaxBlock == 4         \* the chain grows to this block number
MaxEvents == 2        \* the registry emits at most this many events
MaxGrants == 2        \* the registry holds at most this many grants (ids from 0)
MaxListLen == 2       \* longest grant list handed to getApprovedGrants directly
MaxWlLen == 1         \* longest whitelist entry fetched
MaxDepth == 2         \* deepest nesting of calls a token makes back into the contract
MaxNested == 1        \* most calls a token makes back during one transfer
MaxInflight == 2      \* most operations of the app awaiting remote I/O at once

(***************************************************************************)
(* uint256 words.  A word is modelled by the set of its 1 bits, a subset   *)
(* of 0..255: | is union, & is intersection, 1 << k is {k}.                *)
(***************************************************************************)
WordBits == 256

BitOr(a, b) == a \cup b
BitAnd(a, b) == a \cap b
Shl1(k) == {k}

(***************************************************************************)
(* keccak256 and OpenZeppelin's MerkleProof, with keccak256 as a           *)
(* collision-free symbolic hash: a hash value is a sequence of integers    *)
(* in prefix form, so that distinct preimages give distinct values.        *)
(***************************************************************************)
\* keccak256(abi.encodePacked(_index, _payee, _amount))
LeafHash(index, payee, amount) == <<0, index, payee, amount>>

RECURSIVE SeqLE(_, _)
\* the order MerkleProof puts on two hash values (a <= b)
SeqLE(a, b) ==
  IF a = <<>> THEN TRUE
  ELSE IF b = <<>> THEN FALSE
  ELSE IF a[1] < b[1] THEN TRUE
  ELSE IF a[1] > b[1] THEN FALSE
  ELSE SeqLE(Tail(a), Tail(b))

\* MerkleProof: the hash of a sorted pair
HashPair(a, b) == IF SeqLE(a, b) THEN <<1>> \o a \o b ELSE <<1>> \o b \o a

RECURSIVE ProcessProof(_, _)
\* MerkleProof.processProof: fold the proof elements into the leaf
ProcessProof(proof, computed) ==
  IF proof = <<>> THEN computed
  ELSE ProcessProof(Tail(proof), HashPair(computed, Head(proof)))

\* MerkleProof.verify(proof, root, leaf)
MerkleVerify(proof, root, leaf) == ProcessProof(proof, leaf) = root

(***************************************************************************)
(* The distribution the contract is constructed with: four leaves, three   *)
(* of them in the first bitmap word and one in the second.                 *)
(***************************************************************************)
Payees == {1, 2, 3}

Leaf1 == [index |-> 0, payee |-> 1, amount |-> 1]
Leaf2 == [index |-> 1, payee |-> 2, amount |-> 2]
Leaf3 == [index |-> 255, payee |-> 1, amount |-> 1]
Leaf4 == [index |-> 256, payee |-> 3, amount |-> 2]
Leaves == {Leaf1, Leaf2, Leaf3, Leaf4}

HashOf(l) == LeafHash(l.index, l.payee, l.amount)
Node12 == HashPair(HashOf(Leaf1), HashOf(Leaf2))
Node34 == HashPair(HashOf(Leaf3), HashOf(Leaf4))
Root == HashPair(Node12, Node34)

Proof1 == <<HashOf(Leaf2), Node34>>
Proof2 == <<HashOf(Leaf1), Node34>>
Proof3 == <<HashOf(Leaf4), Node12>>
Proof4 == <<HashOf(Leaf3), Node12>>

\* struct Claim
MkClaim(l, proof) ==
  [index |-> l.index, payee |-> l.payee, amount |-> l.amount, merkleProof |-> proof]

\* the Claim structs callers send: the four honest ones and forged ones
ValidClaims ==
  {MkClaim(Leaf1, Proof1), MkClaim(Leaf2, Proof2),
   MkClaim(Leaf3, Proof3), MkClaim(Leaf4, Proof4)}

ForgedClaims ==
  {MkClaim([Leaf1 EXCEPT !.amount = 2], Proof1),    \* a larger amount
   MkClaim([Leaf2 EXCEPT !.payee = 3], Proof2),     \* another payee
   MkClaim(Leaf3, Proof4),                          \* another leaf's proof
   MkClaim([Leaf4 EXCEPT !.index = 257], Proof4),   \* an index not in the tree
   MkClaim([Leaf1 EXCEPT !.index = 256], Proof1),   \* a fresh index for a paid leaf
   MkClaim(Leaf2, <<>>)}                            \* no proof

ClaimInputs == ValidClaims \cup ForgedClaims

\* every index the model asks hasClaimed about
AllIndices == {0, 1, 2, 254, 255, 256, 257, 511, 512}
Words == {i \div WordBits : i \in AllIndices}

IsLeaf(c) == [index |-> c.index, payee |-> c.payee, amount |-> c.amount] \in Leaves

(***************************************************************************)
(* MerkleGrantRoundPayout: the contract's functions as operators on the    *)
(* contract state st = [bm, cbal, pbal, ev, paid].  Each returns           *)
(* [ok, err, st]; a revert returns the state it was called with.           *)
(***************************************************************************)
ContractState ==
  [bm |-> claimedBitMap, cbal |-> contractBalance, pbal |-> payeeBalance,
   ev |-> events, paid |-> paidCount]

Revert(st, msg) == [ok |-> FALSE, err |-> msg, st |-> st]
Success(st) == [ok |-> TRUE, err |-> "", st |-> st]

\* a slip: the word is assigned the mask instead of being or-ed with it
SetClaimedOverwrite(bm, _index) ==
  LET claimedWordIndex == _index \div WordBits
      claimedBitIndex == _index % WordBits
  IN [bm EXCEPT ![claimedWordIndex] = Shl1(claimedBitIndex)]

\* a slip: the bit position is taken modulo 255
SetClaimedWrongBit(bm, _index) ==
  LET claimedWordIndex == _index \div WordBits
      claimedBitIndex == _index % (WordBits - 1)
  IN [bm EXCEPT ![claimedWordIndex] = BitOr(bm[claimedWordIndex], Shl1(claimedBitIndex))]

_setClaimed(bm, _index) ==
  LET claimedWordIndex == _index \div WordBits
      claimedBitIndex == _index % WordBits
  IN [bm EXCEPT ![claimedWordIndex] = BitOr(bm[claimedWordIndex], Shl1(claimedBitIndex))]

hasClaimed(bm, _index) ==
  LET claimedWordIndex == _index \div WordBits
      claimedBitIndex == _index % WordBits
      claimedWord == bm[claimedWordIndex]
      mask == Shl1(claimedBitIndex)
  IN BitAnd(claimedWord, mask) = mask

\* a slip: a transfer the contract cannot afford returns without moving
\* tokens instead of reverting
SafeTransferNoRevert(st, _payee, _amount) ==
  IF st.cbal < _amount
    THEN Success(st)
    ELSE Success([st EXCEPT !.cbal = @ - _amount,
                            !.pbal[_payee] = @ + _amount])

\* token.safeTransfer(_payee, _amount) of a standard ERC20: it reverts when
\* the contract holds less than _amount
safeTransfer(st, _payee, _amount) ==
  IF st.cbal < _amount
    THEN Revert(st, "ERC20: transfer amount exceeds balance")
    ELSE Success([st EXCEPT !.cbal = @ - _amount,
                            !.pbal[_payee] = @ + _amount])

\* a slip: the already-claimed check is missing
ClaimNoClaimedCheck(st, _claim) ==
  LET _index == _claim.index
      _payee == _claim.payee
      _amount == _claim.amount
      node == LeafHash(_index, _payee, _amount)
  IN IF ~MerkleVerify(_claim.merkleProof, merkleRoot, node)
       THEN Revert(st, "MerkleGrantRoundPayout: Invalid proof.")
       ELSE LET marked == [st EXCEPT !.bm = _setClaimed(st.bm, _index)]
                sent == safeTransfer(marked, _payee, _amount)
            IN IF ~sent.ok THEN Revert(st, sent.err)
               ELSE Success([sent.st EXCEPT
                      !.paid[_index] = @ + 1,
                      !.ev = Append(@, [index |-> _index, payee |-> _payee,
                                        amount |-> _amount])])

\* a slip: the proof check is missing
ClaimNoProofCheck(st, _claim) ==
  LET _index == _claim.index
      _payee == _claim.payee
      _amount == _claim.amount
  IN IF hasClaimed(st.bm, _index)
       THEN Revert(st, "MerkleGrantRoundPayout: Funds already claimed")
       ELSE LET marked == [st EXCEPT !.bm = _setClaimed(st.bm, _index)]
                sent == safeTransfer(marked, _payee, _amount)
            IN IF ~sent.ok THEN Revert(st, sent.err)
               ELSE Success([sent.st EXCEPT
                      !.paid[_index] = @ + 1,
                      !.ev = Append(@, [index |-> _index, payee |-> _payee,
                                        amount |-> _amount])])

\* a slip: the Claimed event is not emitted
ClaimNoEmit(st, _claim) ==
  LET _index == _claim.index
      _payee == _claim.payee
      _amount == _claim.amount
      node == LeafHash(_index, _payee, _amount)
  IN IF hasClaimed(st.bm, _index)
       THEN Revert(st, "MerkleGrantRoundPayout: Funds already claimed")
     ELSE IF ~MerkleVerify(_claim.merkleProof, merkleRoot, node)
       THEN Revert(st, "MerkleGrantRoundPayout: Invalid proof.")
     ELSE LET marked == [st EXCEPT !.bm = _setClaimed(st.bm, _index)]
              sent == safeTransfer(marked, _payee, _amount)
          IN IF ~sent.ok THEN Revert(st, sent.err)
             ELSE Success([sent.st EXCEPT !.paid[_index] = @ + 1])

claim(st, _claim) ==
  LET _index == _claim.index
      _payee == _claim.payee
      _amount == _claim.amount
      _merkleProof == _claim.merkleProof
      node == LeafHash(_index, _payee, _amount)
  IN IF hasClaimed(st.bm, _index)
       THEN Revert(st, "MerkleGrantRoundPayout: Funds already claimed")
     ELSE IF ~MerkleVerify(_merkleProof, merkleRoot, node)
       THEN Revert(st, "MerkleGrantRoundPayout: Invalid proof.")
     ELSE LET marked == [st EXCEPT !.bm = _setClaimed(st.bm, _index)]
              sent == safeTransfer(marked, _payee, _amount)
          IN IF ~sent.ok THEN Revert(st, sent.err)
             ELSE Success([sent.st EXCEPT
                    !.paid[_index] = @ + 1,
                    !.ev = Append(@, [index |-> _index, payee |-> _payee,
                                      amount |-> _amount])])

RECURSIVE batchLoop(_, _, _)
\* the for loop of batchClaim from element i on; a revert of any element
\* reverts the whole transaction
batchLoop(st, _claims, i) ==
  IF i > Len(_claims) THEN Success(st)
  ELSE LET r == claim(st, _claims[i])
       IN IF ~r.ok THEN r ELSE batchLoop(r.st, _claims, i + 1)

\* a slip: a reverting element stops the loop but the elements before it stay
BatchClaimNoRollback(st, _claims) == batchLoop(st, _claims, 1)

batchClaim(st, _claims) ==
  LET r == batchLoop(st, _claims, 1)
  IN IF r.ok THEN r ELSE Revert(st, r.err)

(***************************************************************************)
(* The contract's transactions                                             *)
(***************************************************************************)
PayoutInit ==
  /\ token = "GTC"
  /\ merkleRoot = Root
  /\ claimedBitMap = [w \in Words |-> {}]
  /\ contractBalance = 0
  /\ payeeBalance = [p \in Payees |-> 0]
  /\ events = <<>>
  /\ paidCount = [i \in AllIndices |-> 0]
  /\ lastTx = [fn |-> "constructor", claims |-> <<>>, ok |-> TRUE, err |-> ""]

\* the state after a transaction that ended with r
Commit(r, fn, args) ==
  /\ claimedBitMap' = r.st.bm
  /\ contractBalance' = r.st.cbal
  /\ payeeBalance' = r.st.pbal
  /\ events' = r.st.ev
  /\ paidCount' = r.st.paid
  /\ lastTx' = [fn |-> fn, claims |-> args, ok |-> r.ok, err |-> r.err]
  /\ UNCHANGED <<token, merkleRoot>>

Claim ==
  \E c \in ClaimInputs : Commit(claim(ContractState, c), "claim", <<c>>)

\* the arrays handed to batchClaim: honest claims of both bitmap words and a
\* forged one, in any order and with repetitions
BatchElems ==
  {MkClaim(Leaf1, Proof1), MkClaim(Leaf2, Proof2), MkClaim(Leaf4, Proof4),
   MkClaim(Leaf3, Proof4)}

BatchInputs == UNION {[1..n -> BatchElems] : n \in 0..MaxBatchLen}

BatchClaim ==
  \E cs \in BatchInputs : Commit(batchClaim(ContractState, cs), "batchClaim", cs)

\* funds are loaded into the contract (a token transfer to its address)
Fund ==
  \E amt \in 1..2 :
    /\ contractBalance + amt <= MaxBalance
    /\ contractBalance' = contractBalance + amt
    /\ lastTx' = [fn |-> "fund", claims |-> <<>>, ok |-> TRUE, err |-> ""]
    /\ UNCHANGED <<token, merkleRoot, claimedBitMap, payeeBalance, events, paidCount>>

PayoutNext == Claim \/ BatchClaim \/ Fund

(***************************************************************************)
(* MerkleGrantRoundPayout with a token that calls back.  During a transfer *)
(* the token (or a payee it notifies) may call claim and batchClaim of the *)
(* contract again.  hooks[1] says what is called during a transfer of the  *)
(* outermost call and whether a revert of such a call makes the transfer   *)
(* revert too; Tail(hooks) does the same for the transfers made by those   *)
(* calls.  Each operator returns [ok, err, st, log]; log lists the nested  *)
(* calls made, with the indices whose claim was in progress (during).      *)
(***************************************************************************)
RECURSIVE claimNested(_, _, _, _)
RECURSIVE transferNested(_, _, _, _, _)
RECURSIVE callsNested(_, _, _, _, _)
RECURSIVE batchLoopNested(_, _, _, _, _, _)

Reverted(st, msg, log) == [ok |-> FALSE, err |-> msg, st |-> st, log |-> log]
Succeeded(st, log) == [ok |-> TRUE, err |-> "", st |-> st, log |-> log]

\* a slip: the tokens are transferred before the index is marked
ClaimNestedTransferFirst(st, _claim, hooks, during) ==
  LET _index == _claim.index
      _payee == _claim.payee
      _amount == _claim.amount
      node == LeafHash(_index, _payee, _amount)
  IN IF hasClaimed(st.bm, _index)
       THEN Reverted(st, "MerkleGrantRoundPayout: Funds already claimed", <<>>)
     ELSE IF ~MerkleVerify(_claim.merkleProof, merkleRoot, node)
       THEN Reverted(st, "MerkleGrantRoundPayout: Invalid proof.", <<>>)
     ELSE LET sent == transferNested(st, _payee, _amount, hooks, during \cup {_index})
          IN IF ~sent.ok THEN Reverted(st, sent.err, sent.log)
             ELSE Succeeded([sent.st EXCEPT
                    !.bm = _setClaimed(sent.st.bm, _index),
                    !.paid[_index] = @ + 1,
                    !.ev = Append(@, [index |-> _index, payee |-> _payee,
                                      amount |-> _amount])], sent.log)

\* claim, with the calls the token makes back during the transfer
claimNested(st, _claim, hooks, during) ==
  LET _index == _claim.index
      _payee == _claim.payee
      _amount == _claim.amount
      _merkleProof == _claim.merkleProof
      node == LeafHash(_index, _payee, _amount)
  IN IF hasClaimed(st.bm, _index)
       THEN Reverted(st, "MerkleGrantRoundPayout: Funds already claimed", <<>>)
     ELSE IF ~MerkleVerify(_merkleProof, merkleRoot, node)
       THEN Reverted(st, "MerkleGrantRoundPayout: Invalid proof.", <<>>)
     ELSE LET marked == [st EXCEPT !.bm = _setClaimed(st.bm, _index)]
              sent == transferNested(marked, _payee, _amount, hooks, during \cup {_index})
          IN IF ~sent.ok THEN Reverted(st, sent.err, sent.log)
             ELSE Succeeded([sent.st EXCEPT
                    !.paid[_index] = @ + 1,
                    !.ev = Append(@, [index |-> _index, payee |-> _payee,
                                      amount |-> _amount])], sent.log)

\* token.safeTransfer of a token that calls back after moving the balances
transferNested(st, _payee, _amount, hooks, during) ==
  IF st.cbal < _amount
    THEN Reverted(st, "ERC20: transfer amount exceeds balance", <<>>)
  ELSE LET moved == [st EXCEPT !.cbal = @ - _amount, !.pbal[_payee] = @ + _amount]
       IN IF hooks = <<>> THEN Succeeded(moved, <<>>)
          ELSE callsNested(moved, Head(hooks).calls, Tail(hooks), during,
                           Head(hooks).bubble)

\* the for loop of batchClaim from element i on
batchLoopNested(st, _claims, i, hooks, during, log) ==
  IF i > Len(_claims) THEN Succeeded(st, log)
  ELSE LET r == claimNested(st, _claims[i], hooks, during)
       IN IF ~r.ok THEN Reverted(st, r.err, log \o r.log)
          ELSE batchLoopNested(r.st, _claims, i + 1, hooks, during, log \o r.log)

batchClaimNested(st, _claims, hooks, during) ==
  LET r == batchLoopNested(st, _claims, 1, hooks, during, <<>>)
  IN IF r.ok THEN r ELSE Reverted(st, r.err, r.log)

\* the calls the token makes back, one after the other; a call that reverts
\* leaves the state as it was before it, and reverts the transfer if bubble
callsNested(st, calls, hooks, during, bubble) ==
  IF calls = <<>> THEN Succeeded(st, <<>>)
  ELSE LET call == Head(calls)
           r == IF call.fn = "claim"
                  THEN claimNested(st, call.claims[1], hooks, during)
                  ELSE batchClaimNested(st, call.claims, hooks, during)
           entry == [fn |-> call.fn, claims |-> call.claims, during |-> during,
                     ok |-> r.ok, err |-> r.err]
       IN IF ~r.ok /\ bubble
            THEN Reverted(st, r.err, <<entry>> \o r.log)
            ELSE LET rest == callsNested(IF r.ok THEN r.st ELSE st, Tail(calls),
                                         hooks, during, bubble)
                 IN [rest EXCEPT !.log = <<entry>> \o r.log \o @]

\* the claims of re-entrant transactions, and the calls a token makes back
ReentrantClaims == {MkClaim(Leaf1, Proof1), MkClaim(Leaf2, Proof2)}

NestedCalls ==
  {[fn |-> "claim", claims |-> <<c>>] : c \in ReentrantClaims}
    \cup {[fn |-> "batchClaim", claims |-> cs] : cs \in [1..2 -> ReentrantClaims]}

HookSet ==
  [calls : UNION {[1..n -> NestedCalls] : n \in 1..MaxNested}, bubble : BOOLEAN]

Hooks == UNION {[1..d -> HookSet] : d \in 0..MaxDepth}

\* the state after a transaction of the calling-back token's world ended with r
CommitNested(r, fn, args) ==
  /\ claimedBitMap' = r.st.bm
  /\ contractBalance' = r.st.cbal
  /\ payeeBalance' = r.st.pbal
  /\ events' = r.st.ev
  /\ paidCount' = r.st.paid
  /\ lastTx' = [fn |-> fn, claims |-> args, ok |-> r.ok, err |-> r.err,
                nested |-> r.log]
  /\ UNCHANGED <<token, merkleRoot>>

ReentrantClaim ==
  \E c \in ReentrantClaims : \E hooks \in Hooks :
    CommitNested(claimNested(ContractState, c, hooks, {}), "claim", <<c>>)

ReentrantBatchClaim ==
  \E cs \in [1..2 -> ReentrantClaims] : \E hooks \in Hooks :
    CommitNested(batchClaimNested(ContractState, cs, hooks, {}), "batchClaim", cs)

PayoutNextNested == ReentrantClaim \/ ReentrantBatchClaim \/ Fund

(***************************************************************************)
(* Claims about MerkleGrantRoundPayout (checked under SpecPayout)          *)
(***************************************************************************)
LeafOfClaim(c) == LeafHash(c.index, c.payee, c.amount)

NoTokensMoved ==
  /\ contractBalance' = contractBalance
  /\ payeeBalance' = payeeBalance

\* C1: at-most-once payout.  Over any sequence of claim and batchClaim calls
\* no index is paid more than once; a claim whose index is already marked
\* reverts with 'Funds already claimed' and moves no tokens; a batch that
\* names an already claimed index, or one index twice, reverts and moves no
\* tokens.
C1_AtMostOncePayout ==
  [][ /\ \A i \in AllIndices : paidCount'[i] <= 1
      /\ lastTx'.fn = "claim" /\ hasClaimed(claimedBitMap, lastTx'.claims[1].index)
           => /\ ~lastTx'.ok
              /\ lastTx'.err = "MerkleGrantRoundPayout: Funds already claimed"
              /\ NoTokensMoved
      /\ lastTx'.fn = "batchClaim"
           => \A k \in 1..Len(lastTx'.claims) :
                \/ hasClaimed(claimedBitMap, lastTx'.claims[k].index)
                \/ \E j \in 1..(k - 1) : lastTx'.claims[j].index = lastTx'.claims[k].index
                => ~lastTx'.ok /\ NoTokensMoved
    ]_vars

\* C1 witness: a funded batch naming one honest claim twice was sent and
\* reverted with 'Funds already claimed', after another index had been paid.
C1_Witness ==
  /\ lastTx.fn = "batchClaim"
  /\ Len(lastTx.claims) = 2
  /\ lastTx.claims[1] = lastTx.claims[2]
  /\ lastTx.claims[1] \in ValidClaims
  /\ ~lastTx.ok
  /\ lastTx.err = "MerkleGrantRoundPayout: Funds already claimed"
  /\ contractBalance >= lastTx.claims[1].amount
  /\ paidCount[lastTx.claims[1].index] = 0
  /\ \E i \in AllIndices : paidCount[i] = 1

\* C2: the claim ledger is monotonic.  Once hasClaimed(i) is true it is true
\* in every later state, whatever call (successful or reverted) follows.
C2_LedgerMonotonic ==
  [][\A i \in AllIndices :
       hasClaimed(claimedBitMap, i) => hasClaimed(claimedBitMap', i)]_vars

\* C2 witness: two indices of one word are claimed and the last call reverted.
C2_Witness ==
  /\ hasClaimed(claimedBitMap, 0)
  /\ hasClaimed(claimedBitMap, 255)
  /\ ~lastTx.ok
  /\ lastTx.fn \in {"claim", "batchClaim"}

\* C3 (as stated): a claim pays out only for a leaf under merkleRoot; a claim
\* whose proof does not verify reverts with 'Invalid proof.' and leaves the
\* bitmap, the balances and the event log unchanged; merkleRoot and token
\* never change.
C3_InvalidProofReverts_Original ==
  [][ /\ merkleRoot' = merkleRoot
      /\ token' = token
      /\ lastTx'.fn = "claim" =>
           LET c == lastTx'.claims[1]
           IN /\ lastTx'.ok => IsLeaf(c)
              /\ ~MerkleVerify(c.merkleProof, merkleRoot, LeafOfClaim(c))
                   => /\ ~lastTx'.ok
                      /\ lastTx'.err = "MerkleGrantRoundPayout: Invalid proof."
                      /\ UNCHANGED <<claimedBitMap, contractBalance, payeeBalance, events>>
    ]_vars

\* C3 (amended): as C3, but the revert reason is 'Invalid proof.' only when
\* the index is not yet marked claimed; for a marked index the claim reverts
\* with 'Funds already claimed'.  Either way nothing changes.
C3_InvalidProofReverts ==
  [][ /\ merkleRoot' = merkleRoot
      /\ token' = token
      /\ lastTx'.fn = "claim" =>
           LET c == lastTx'.claims[1]
           IN /\ lastTx'.ok => IsLeaf(c)
              /\ ~MerkleVerify(c.merkleProof, merkleRoot, LeafOfClaim(c))
                   => /\ ~lastTx'.ok
                      /\ lastTx'.err =
                           IF hasClaimed(claimedBitMap, c.index)
                             THEN "MerkleGrantRoundPayout: Funds already claimed"
                             ELSE "MerkleGrantRoundPayout: Invalid proof."
                      /\ UNCHANGED <<claimedBitMap, contractBalance, payeeBalance, events>>
    ]_vars

\* C3 witness: with funds in the contract, a forged claim for an unmarked
\* index was rejected with 'Invalid proof.'.
C3_Witness ==
  /\ lastTx.fn = "claim"
  /\ lastTx.claims[1] \in ForgedClaims
  /\ ~hasClaimed(claimedBitMap, lastTx.claims[1].index)
  /\ lastTx.err = "MerkleGrantRoundPayout: Invalid proof."
  /\ contractBalance >= lastTx.claims[1].amount
  /\ events # <<>>

\* C4: the packed bitmap is the exact set of paid-out indices: hasClaimed(i)
\* is true iff a claim for i has succeeded, and marking i changes
\* hasClaimed(j) for no j different from i.
C4_BitmapExact ==
  /\ \A i \in AllIndices : hasClaimed(claimedBitMap, i) <=> paidCount[i] >= 1
  /\ \A i \in AllIndices : \A j \in AllIndices \ {i} :
       hasClaimed(_setClaimed(claimedBitMap, i), j) = hasClaimed(claimedBitMap, j)

\* C4 witness: indices 0 and 255 (one word) and 256 (the next word) are paid
\* and index 1 is not.
C4_Witness ==
  /\ paidCount[0] = 1 /\ paidCount[255] = 1 /\ paidCount[256] = 1
  /\ paidCount[1] = 0
  /\ hasClaimed(claimedBitMap, 255)

\* the Claimed event of a claim
ClaimedOf(c) == [index |-> c.index, payee |-> c.payee, amount |-> c.amount]

ClaimedOfAll(cs) == [k \in 1..Len(cs) |-> ClaimedOf(cs[k])]

\* the number of Claimed events in log that carry index i
EmittedFor(log, i) == Cardinality({k \in 1..Len(log) : log[k].index = i})

\* C11: a Claimed(index, payee, amount) event is emitted exactly once for
\* each claim that succeeds, with that claim's index, payee and amount, in a
\* state where the index is marked and the tokens have reached the payee of
\* the claim; a claim or batch that reverts, and a funding, emit nothing.
C11_ClaimedEvent ==
  [][ /\ lastTx'.fn = "claim" =>
           LET c == lastTx'.claims[1]
           IN /\ lastTx'.ok =>
                   /\ events' = Append(events, ClaimedOf(c))
                   /\ hasClaimed(claimedBitMap', c.index)
                   /\ payeeBalance'[c.payee] = payeeBalance[c.payee] + c.amount
              /\ ~lastTx'.ok => events' = events
      /\ lastTx'.fn = "batchClaim" =>
           /\ lastTx'.ok => events' = events \o ClaimedOfAll(lastTx'.claims)
           /\ ~lastTx'.ok => events' = events
      /\ lastTx'.fn = "fund" => events' = events
      /\ \A i \in AllIndices : EmittedFor(events', i) = paidCount'[i]
    ]_vars

\* C11 witness: a single claim and then a batch of two succeeded, and the log
\* holds their three events, the batch's in array order.
C11_Witness ==
  /\ lastTx.fn = "batchClaim"
  /\ lastTx.ok
  /\ Len(lastTx.claims) = 2
  /\ Len(events) = 3
  /\ events[2] = ClaimedOf(lastTx.claims[1])
  /\ events[3] = ClaimedOf(lastTx.claims[2])

RECURSIVE ClaimEach(_, _)
\* claim called on each element of cs in order, one transaction each, as far
\* as they succeed
ClaimEach(st, cs) ==
  IF cs = <<>> THEN Success(st)
  ELSE LET r == claim(st, Head(cs))
       IN IF r.ok THEN ClaimEach(r.st, Tail(cs)) ELSE r

RECURSIVE SumAmounts(_)
SumAmounts(cs) == IF cs = <<>> THEN 0 ELSE Head(cs).amount + SumAmounts(Tail(cs))

\* C15: batchClaim is all-or-nothing and order-preserving: if any element
\* reverts (already claimed, invalid proof, an index repeated in the batch,
\* or not enough tokens) no index is marked, no tokens move and no event is
\* emitted; when it succeeds the state is that of calling claim on each
\* element in array order.
C15_BatchAtomic ==
  [][ lastTx'.fn = "batchClaim" =>
        LET cs == lastTx'.claims
            each == ClaimEach(ContractState, cs)
        IN /\ lastTx'.ok <=> each.ok
           /\ ( \/ \E k \in 1..Len(cs) :
                     \/ hasClaimed(claimedBitMap, cs[k].index)
                     \/ ~MerkleVerify(cs[k].merkleProof, merkleRoot, LeafOfClaim(cs[k]))
                     \/ \E j \in 1..(k - 1) : cs[j].index = cs[k].index
                \/ SumAmounts(cs) > contractBalance )
                => ~lastTx'.ok
           /\ ~lastTx'.ok =>
                UNCHANGED <<claimedBitMap, contractBalance, payeeBalance, events>>
           /\ lastTx'.ok =>
                /\ claimedBitMap' = each.st.bm
                /\ contractBalance' = each.st.cbal
                /\ payeeBalance' = each.st.pbal
                /\ events' = each.st.ev
    ]_vars

\* C15 witness: a batch whose first element could be claimed alone was
\* reverted because the contract could not pay its second element, after an
\* earlier payout.
C15_Witness ==
  /\ lastTx.fn = "batchClaim"
  /\ Len(lastTx.claims) = 2
  /\ ~lastTx.ok
  /\ lastTx.err = "ERC20: transfer amount exceeds balance"
  /\ claim(ContractState, lastTx.claims[1]).ok
  /\ ~hasClaimed(claimedBitMap, lastTx.claims[2].index)
  /\ events # <<>>

RECURSIVE SumOf(_, _)
\* the sum of f over the finite set S
SumOf(f, S) ==
  IF S = {} THEN 0
  ELSE LET x == CHOOSE y \in S : TRUE IN f[x] + SumOf(f, S \ {x})

\* all tokens the contract has transferred out (payees start with none)
TransferredOut(pbal) == SumOf(pbal, Payees)

\* the amounts of the leaves whose index is marked claimed in bm
ClaimedAmount(bm) ==
  SumOf([l \in Leaves |-> l.amount], {l \in Leaves : hasClaimed(bm, l.index)})

\* C17: payout conservation: in every state the tokens transferred out equal
\* the sum of the amounts of the leaves whose index is marked claimed; a
\* claim whose transfer fails for lack of tokens reverts and leaves its index
\* unclaimed, and an unclaimed leaf the contract can afford is claimable.
C17_Conservation ==
  [][ /\ TransferredOut(payeeBalance') = ClaimedAmount(claimedBitMap')
      /\ \A i \in AllIndices :
           hasClaimed(claimedBitMap', i) =>
             \E l \in Leaves : l.index = i
      /\ lastTx'.fn = "claim" =>
           LET c == lastTx'.claims[1]
           IN /\ ~hasClaimed(claimedBitMap, c.index)
              /\ MerkleVerify(c.merkleProof, merkleRoot, LeafOfClaim(c))
              /\ contractBalance < c.amount
              => /\ ~lastTx'.ok
                 /\ ~hasClaimed(claimedBitMap', c.index)
                 /\ UNCHANGED <<claimedBitMap, contractBalance, payeeBalance, events>>
      /\ \A c \in ValidClaims :
           ~hasClaimed(claimedBitMap', c.index) /\ contractBalance' >= c.amount
             => claim(ContractState', c).ok
    ]_vars

\* C17 witness: after an earlier payout, an honest claim reverted because the
\* contract held tokens but fewer than the amount, and its index is unclaimed.
C17_Witness ==
  /\ lastTx.fn = "claim"
  /\ lastTx.claims[1] \in ValidClaims
  /\ ~lastTx.ok
  /\ lastTx.err = "ERC20: transfer amount exceeds balance"
  /\ ~hasClaimed(claimedBitMap, lastTx.claims[1].index)
  /\ contractBalance > 0
  /\ TransferredOut(payeeBalance) > 0

\* C16: re-entrancy cannot double-pay: claim marks the index before it calls
\* the token's transfer, so a nested claim or batchClaim naming an index
\* whose claim is in progress reverts (a nested claim with 'Funds already
\* claimed'); whatever calls the token makes back, no index is paid twice and
\* the tokens paid out are those of the marked leaves.
C16_NoReentrantDoublePay ==
  [][ /\ \A i \in AllIndices : paidCount'[i] <= 1
      /\ TransferredOut(payeeBalance') = ClaimedAmount(claimedBitMap')
      /\ lastTx'.fn \in {"claim", "batchClaim"} =>
           \A k \in 1..Len(lastTx'.nested) :
             LET n == lastTx'.nested[k]
             IN (\E j \in 1..Len(n.claims) : n.claims[j].index \in n.during) =>
                  /\ ~n.ok
                  /\ n.fn = "claim" =>
                       n.err = "MerkleGrantRoundPayout: Funds already claimed"
    ]_vars

\* C16 witness: a claim succeeded although, during its transfer, the token
\* called claim for another index (which was paid) and, during that
\* transfer, claim for the first index again (which was rejected).
C16_Witness ==
  /\ lastTx.fn = "claim"
  /\ lastTx.ok
  /\ Len(lastTx.nested) = 2
  /\ lastTx.nested[1].ok
  /\ lastTx.nested[1].claims[1].index # lastTx.claims[1].index
  /\ lastTx.nested[2].fn = "claim"
  /\ lastTx.nested[2].claims[1].index = lastTx.claims[1].index
  /\ ~lastTx.nested[2].ok
  /\ Len(events) = 2
  /\ paidCount[lastTx.claims[1].index] = 1

(***************************************************************************)
(* Values as the app sees them.  A number reaches the app as a JavaScript  *)
(* number, as an ethers BigNumber (event arguments) or as a hex string     *)
(* (subgraph ids); an address as a checksummed or a lower-case string.     *)
(* The representation is kept, so that a missing conversion shows.         *)
(***************************************************************************)
Num(n) == [repr |-> "number", n |-> n]
Big(n) == [repr |-> "BigNumber", n |-> n]
Hex(n) == [repr |-> "hex", n |-> n]

\* a slip: the value is used as it came, without BigNumber.from(..).toNumber()
ToNumberMissing(v) == v

\* BigNumber.from(v).toNumber()
toNumber(v) == Num(v.n)

Checksum(a) == [fmt |-> "checksum", a |-> a]
Lower(a) == [fmt |-> "lower", a |-> a]

\* getAddress(x): the checksummed form of an address
getAddress(x) == Checksum(x.a)

\* a JavaScript object used as a map: a function from property keys to values
EmptyMap == [k \in {} |-> k]
Has(map, k) == k \in DOMAIN map
Put(map, k, v) == [x \in (DOMAIN map) \cup {k} |-> IF x = k THEN v ELSE map[x]]

\* the position of a property key in the object's own order: integer keys
\* ascending first, then the other keys
KeyRank(k) ==
  k.n + (CASE k.repr = "number" -> 0
           [] k.repr = "hex" -> MaxGrants + 1
           [] OTHER -> 2 * (MaxGrants + 1))

RECURSIVE ValuesFrom(_, _)
ValuesFrom(map, keys) ==
  IF keys = {} THEN <<>>
  ELSE LET k == CHOOSE x \in keys : \A y \in keys : KeyRank(x) <= KeyRank(y)
       IN <<map[k]>> \o ValuesFrom(map, keys \ {k})

\* Object.values(map)
ObjectValues(map) == ValuesFrom(map, DOMAIN map)

(***************************************************************************)
(* The chain: the GrantRegistry emits GrantCreated(id, owner, payee,       *)
(* metaPtr, time) with ids counting from 0 and GrantUpdated for existing   *)
(* ids; time is the timestamp of the block.                                *)
(***************************************************************************)
START_BLOCK == 1

Profile1 == [owner |-> "o1", payee |-> "p1", metaPtr |-> "m1"]
Profile2 == [owner |-> "o2", payee |-> "p2", metaPtr |-> "m2"]

BlockTime(b) == 100 + (10 * b)

GrantCount == Cardinality({i \in 1..Len(chain) : chain[i].kind = "GrantCreated"})

ChainInit ==
  /\ chain = <<>>
  /\ head = START_BLOCK

Emit(kind, id, pr) ==
  /\ Len(chain) < MaxEvents
  /\ chain' = Append(chain, [kind |-> kind, id |-> id, owner |-> pr.owner,
                             payee |-> pr.payee, metaPtr |-> pr.metaPtr,
                             time |-> BlockTime(head), block |-> head])
  /\ UNCHANGED head

\* the last event emitted for grant id
LastPos(id) == CHOOSE i \in 1..Len(chain) :
                 /\ chain[i].id = id
                 /\ \A j \in (i + 1)..Len(chain) : chain[j].id # id

\* the first event emitted for grant id (its GrantCreated)
FirstPos(id) == CHOOSE i \in 1..Len(chain) :
                  /\ chain[i].id = id
                  /\ \A j \in 1..(i - 1) : chain[j].id # id

\* GrantRegistry.createGrant
CreateGrant ==
  /\ GrantCount < MaxGrants
  /\ Emit("GrantCreated", GrantCount, Profile1)

\* GrantRegistry.updateGrant: every update changes owner, payee and metaPtr
UpdateGrant ==
  \E id \in 0..(GrantCount - 1) :
    Emit("GrantUpdated", id,
         IF chain[LastPos(id)].owner = Profile1.owner THEN Profile2 ELSE Profile1)

\* a block is mined
NewBlock ==
  /\ head < MaxBlock
  /\ head' = head + 1
  /\ UNCHANGED chain

\* the arguments of an event as ethers hands them to the app
EventArgs(e) ==
  [id |-> Big(e.id), owner |-> Checksum(e.owner), payee |-> Checksum(e.payee),
   metaPtr |-> e.metaPtr, time |-> e.time]

RECURSIVE ArgsOf(_)
ArgsOf(evs) == IF evs = <<>> THEN <<>> ELSE <<EventArgs(Head(evs))>> \o ArgsOf(Tail(evs))

\* batchFilterCall({contract, filter, args}, fromBlock, toBlock): the events
\* of one kind in the blocks fromBlock..toBlock, oldest first
batchFilterCall(filter, fromBlock, toBlock) ==
  ArgsOf(SelectSeq(chain, LAMBDA e : /\ e.kind = filter
                                     /\ fromBlock <= e.block
                                     /\ e.block <= toBlock))

\* the subgraph's row for grant id: its creation time and the fields of its
\* last event
SubgraphRow(id) ==
  LET e == chain[LastPos(id)]
  IN [id |-> Hex(id), owner |-> Lower(e.owner), payee |-> Lower(e.payee),
      metaPtr |-> e.metaPtr,
      createdAtTimestamp |-> chain[FirstPos(id)].time,
      lastUpdatedTimestamp |-> e.time,
      lastUpdatedBlockNumber |-> e.block]

RECURSIVE RowsFrom(_, _)
RowsFrom(id, fromBlock) ==
  IF id >= GrantCount THEN <<>>
  ELSE (IF SubgraphRow(id).lastUpdatedBlockNumber >= fromBlock
          THEN <<SubgraphRow(id)>> ELSE <<>>) \o RowsFrom(id + 1, fromBlock)

\* recursiveGraphFetch(SUBGRAPH_URL, 'grants', query, fromBlock): the rows
\* whose lastUpdatedBlockNumber is at least fromBlock
recursiveGraphFetch(fromBlock) == RowsFrom(0, fromBlock)

(***************************************************************************)
(* Local storage (getStorageKey / setStorageKey / syncStorage).  An entry  *)
(* that was never written reads as absent.                                 *)
(***************************************************************************)
NoGrantsEntry == [present |-> FALSE, blockNumber |-> 0, grants |-> EmptyMap]
JsonNull == [kind |-> "null", ids |-> <<>>]
NoWhitelistEntry == [present |-> FALSE, data |-> JsonNull]

\* getStorageKey(key)
getStorageKey(store, key) == store[key]

\* setStorageKey(key, value)
setStorageKey(store, key, value) == [store EXCEPT ![key] = value]

\* syncStorage(allGrantsKey, {blockNumber}, callback): after the callback,
\* when it called save, the entry becomes {blockNumber, data: {grants}}
syncStorage(store, blockNumber, saved, grants) ==
  IF saved
    THEN setStorageKey(store, "allGrants",
           [present |-> TRUE, blockNumber |-> blockNumber, grants |-> grants])
    ELSE store

(***************************************************************************)
(* getApprovedGrants                                                       *)
(***************************************************************************)
\* a fetched whitelist JSON: kind "whitelist" has an entry (ids) for
\* DGRANTS_CHAIN_ID, kind "nochain" has none, kind "null" is a falsy body
Wl(ids) == [kind |-> "whitelist", ids |-> ids]
WlNoChain == [kind |-> "nochain", ids |-> <<>>]

\* whiteList[DGRANTS_CHAIN_ID]
ChainEntry(whiteList) ==
  IF whiteList.kind = "whitelist"
    THEN [defined |-> TRUE, ids |-> whiteList.ids]
    ELSE [defined |-> FALSE, ids |-> <<>>]

\* list.includes(x)
Includes(list, x) == \E i \in 1..Len(list) : list[i] = x

Returned(grants, pk, store) ==
  [threw |-> FALSE, err |-> "", grants |-> grants, approvedGrantsPk |-> pk,
   store |-> store]

Thrown(err, store) ==
  [threw |-> TRUE, err |-> err, grants |-> <<>>,
   approvedGrantsPk |-> [defined |-> FALSE, ids |-> <<>>], store |-> store]

\* a slip: the filter keeps the grants that are not in the whitelist
FilterInverted(grants, whiteList) ==
  IF grants # <<>> /\ ~ChainEntry(whiteList).defined
    THEN [threw |-> TRUE, grants |-> <<>>]
    ELSE [threw |-> FALSE,
          grants |-> SelectSeq(grants,
                       LAMBDA grant : ~Includes(ChainEntry(whiteList).ids, grant.id))]

\* filterWhiteListed: undefined.includes is a TypeError, raised when the
\* filter callback runs (there is a grant) and the chain has no entry
filterWhiteListed(grants, whiteList) ==
  IF grants # <<>> /\ ~ChainEntry(whiteList).defined
    THEN [threw |-> TRUE, grants |-> <<>>]
    ELSE [threw |-> FALSE,
          grants |-> SelectSeq(grants,
                       LAMBDA grant : Includes(ChainEntry(whiteList).ids, grant.id))]

\* a slip: the fallback returns the grants unfiltered when nothing is cached
FallbackNoThrow(grants, store) ==
  LET cachedWhiteList == getStorageKey(store, "whitelist")
  IN IF cachedWhiteList.present
       THEN LET f == filterWhiteListed(grants, cachedWhiteList.data)
            IN IF f.threw THEN Thrown("TypeError", store)
               ELSE Returned(f.grants, ChainEntry(cachedWhiteList.data), store)
       ELSE Returned(grants, [defined |-> TRUE, ids |-> <<>>], store)

fallback(grants, store) ==
  LET cachedWhiteList == getStorageKey(store, "whitelist")
  IN IF cachedWhiteList.present
       THEN LET f == filterWhiteListed(grants, cachedWhiteList.data)
            IN IF f.threw THEN Thrown("TypeError", store)
               ELSE Returned(f.grants, ChainEntry(cachedWhiteList.data), store)
       ELSE Thrown("Failed to load whitelist and couldn't find a cached", store)

\* getApprovedGrants(grants), given what fetch(url) did: fetched.threw, or
\* the JSON body fetched.json
getApprovedGrants(grants, fetched, store) ==
  IF ~whitelistUrl
    THEN Returned(grants, [defined |-> TRUE, ids |-> <<>>], store)
  ELSE IF fetched.threw THEN fallback(grants, store)
  ELSE IF fetched.json.kind = "null" THEN fallback(grants, store)
  ELSE LET json == fetched.json
           stored == setStorageKey(store, "whitelist", [present |-> TRUE, data |-> json])
           f == filterWhiteListed(grants, json)
       IN IF f.threw THEN fallback(grants, stored)
          ELSE Returned(f.grants, ChainEntry(json), stored)

(***************************************************************************)
(* getAllGrants                                                            *)
(***************************************************************************)
\* the Grant built from a subgraph row
GrantFromRow(grant) ==
  LET grantId == toNumber(grant.id)
  IN [id |-> grantId, owner |-> getAddress(grant.owner),
      payee |-> getAddress(grant.payee), metaPtr |-> grant.metaPtr,
      createdAt |-> grant.createdAtTimestamp,
      lastUpdated |-> grant.lastUpdatedTimestamp]

RECURSIVE SubgraphMerge(_, _)
\* grants.forEach(grant => _lsGrants[grantId] = {...})
SubgraphMerge(_lsGrants, grants) ==
  IF grants = <<>> THEN _lsGrants
  ELSE SubgraphMerge(Put(_lsGrants, toNumber(Head(grants).id), GrantFromRow(Head(grants))),
                     Tail(grants))

\* the Grant built from an event by the .map callback, which reads _lsGrants
GrantFromEvent(_lsGrants, tx) ==
  LET grantId == toNumber(tx.id)
  IN [id |-> grantId, owner |-> getAddress(tx.owner),
      payee |-> getAddress(tx.payee), metaPtr |-> tx.metaPtr,
      createdAt |-> IF Has(_lsGrants, grantId) THEN _lsGrants[grantId].createdAt
                                               ELSE tx.time,
      lastUpdated |-> tx.time]

RECURSIVE PutAll(_, _)
\* .forEach(grant => _lsGrants[grant.id] = grant)
PutAll(_lsGrants, grants) ==
  IF grants = <<>> THEN _lsGrants
  ELSE PutAll(Put(_lsGrants, Head(grants).id, Head(grants)), Tail(grants))

\* [...newGrants, ...updatedGrants].map(..).forEach(..): every element is
\* mapped (against _lsGrants as it is before the first write), then written
RpcMerge(_lsGrants, newGrants, updatedGrants) ==
  LET txs == newGrants \o updatedGrants
      mapped == [i \in 1..Len(txs) |-> GrantFromEvent(_lsGrants, txs[i])]
  IN PutAll(_lsGrants, mapped)

\* the callback getAllGrants hands to syncStorage, given the entry read and
\* whether the subgraph request throws
getAllGrants(LocalForageData, latestBlockNumber, forceRefresh, sgThrows) ==
  LET _lsBlockNumber == IF LocalForageData.present THEN LocalForageData.blockNumber ELSE 0
      _lsGrants == IF LocalForageData.present THEN LocalForageData.grants ELSE EmptyMap
      refresh == \/ forceRefresh
                 \/ ~LocalForageData.present
                 \/ _lsBlockNumber < latestBlockNumber
      fromBlock == IF _lsBlockNumber # 0 THEN _lsBlockNumber + 1 ELSE START_BLOCK
      sgQueried == refresh /\ subgraphUrl
      sgOk == sgQueried /\ ~sgThrows
      rows == IF sgOk THEN recursiveGraphFetch(fromBlock) ELSE <<>>
      afterSubgraph == SubgraphMerge(_lsGrants, rows)
      fromBlock2 == IF sgOk THEN latestBlockNumber ELSE fromBlock
      rpcScanned == refresh /\ fromBlock2 < latestBlockNumber
      newGrants == IF rpcScanned
                     THEN batchFilterCall("GrantCreated", fromBlock2, latestBlockNumber)
                     ELSE <<>>
      updatedGrants == IF rpcScanned
                         THEN batchFilterCall("GrantUpdated", fromBlock2, latestBlockNumber)
                         ELSE <<>>
      merged == RpcMerge(afterSubgraph, newGrants, updatedGrants)
      grants == ObjectValues(merged)
  IN [refresh |-> refresh, fromBlock |-> fromBlock, sgQueried |-> sgQueried,
      rpcScanned |-> rpcScanned, rpcFrom |-> fromBlock2,
      rows |-> rows, txs |-> newGrants \o updatedGrants,
      merged |-> merged, grants |-> grants, saved |-> Len(grants) > 0]

(***************************************************************************)
(* grantListener: the callback for one event, given the chain head         *)
(* DEFAULT_PROVIDER.getBlockNumber() returned and what the whitelist       *)
(* fetch did.                                                              *)
(***************************************************************************)
listener(store, tx, fetched) ==
  LET LocalForageData == getStorageKey(store, "allGrants")
      _lsGrants == IF LocalForageData.present THEN LocalForageData.grants ELSE EmptyMap
      grantId == toNumber(tx.id)
      grant == [id |-> grantId, owner |-> getAddress(tx.owner),
                payee |-> getAddress(tx.payee), metaPtr |-> tx.metaPtr,
                createdAt |-> IF Has(_lsGrants, grantId)
                                THEN _lsGrants[grantId].createdAt ELSE tx.time,
                lastUpdated |-> tx.time]
      merged == Put(_lsGrants, grantId, grant)
      updatedGrants == ObjectValues(merged)
      updatedApprovedGrants == getApprovedGrants(updatedGrants, fetched, store)
  IN [merged |-> merged, grants |-> updatedGrants,
      approved |-> updatedApprovedGrants,
      saved |-> ~updatedApprovedGrants.threw]

(***************************************************************************)
(* The app's operations                                                    *)
(***************************************************************************)
NoFetch == [threw |-> TRUE, json |-> JsonNull]

IdleSync ==
  [fn |-> "none", latestBlockNumber |-> 0, forceRefresh |-> FALSE, sgThrows |-> FALSE,
   refresh |-> FALSE, fromBlock |-> 0, sgQueried |-> FALSE, rpcScanned |-> FALSE,
   rpcFrom |-> 0, pos |-> 0, saved |-> FALSE, threw |-> FALSE]

IdleWl ==
  [fn |-> "none", grants |-> <<>>, fetched |-> NoFetch, result |-> <<>>,
   threw |-> FALSE, err |-> "", approvedGrantsPk |-> [defined |-> TRUE, ids |-> <<>>],
   lastGood |-> NoWhitelistEntry]

AppInit ==
  /\ subgraphUrl \in BOOLEAN
  /\ whitelistUrl \in BOOLEAN
  /\ localForage = [allGrants |-> NoGrantsEntry, whitelist |-> NoWhitelistEntry]
  /\ refs = [grants |-> <<>>, approvedGrants |-> <<>>,
             approvedGrantsPk |-> [defined |-> TRUE, ids |-> <<>>]]
  /\ delivered = 0
  /\ lastSync = IdleSync
  /\ lastWl = IdleWl
  /\ inflight = {}

\* getAllGrants(latestBlockNumber, forceRefresh): the caller passes a block
\* number it read from its provider, at most the head
GetAllGrantsCall ==
  \E latestBlockNumber \in START_BLOCK..head :
  \E forceRefresh \in BOOLEAN :
  \E sgThrows \in (IF subgraphUrl THEN BOOLEAN ELSE {FALSE}) :
    LET r == getAllGrants(getStorageKey(localForage, "allGrants"),
                          latestBlockNumber, forceRefresh, sgThrows)
    IN /\ localForage' = syncStorage(localForage, latestBlockNumber, r.saved, r.merged)
       /\ lastSync' = [IdleSync EXCEPT !.fn = "getAllGrants",
                         !.latestBlockNumber = latestBlockNumber,
                         !.forceRefresh = forceRefresh, !.sgThrows = sgThrows,
                         !.refresh = r.refresh, !.fromBlock = r.fromBlock,
                         !.sgQueried = r.sgQueried, !.rpcScanned = r.rpcScanned,
                         !.rpcFrom = r.rpcFrom, !.saved = r.saved]
       /\ UNCHANGED <<payoutVars, chainVars, subgraphUrl, whitelistUrl, refs,
                      delivered, lastWl, inflight>>

\* what the whitelist fetch does during a listener callback
ListenerFetches == {NoFetch, [threw |-> FALSE, json |-> Wl(<<Num(0)>>)]}

\* the listener is called for an event of the chain, in the order of the
\* log; events emitted while no listener was attached are never delivered
ListenerCallback ==
  \E i \in (delivered + 1)..Len(chain) :
  \E fetched \in ListenerFetches :
    LET r == listener(localForage, EventArgs(chain[i]), fetched)
    IN /\ delivered' = i
       /\ refs' = IF r.approved.threw
                    THEN [refs EXCEPT !.grants = r.grants]
                    ELSE [grants |-> r.grants,
                          approvedGrants |-> r.approved.grants,
                          approvedGrantsPk |-> r.approved.approvedGrantsPk]
       /\ localForage' = syncStorage(r.approved.store, head, r.saved, r.merged)
       /\ lastSync' = [IdleSync EXCEPT !.fn = "listener",
                         !.latestBlockNumber = head, !.pos = i,
                         !.saved = r.saved, !.threw = r.approved.threw]
       /\ UNCHANGED <<payoutVars, chainVars, subgraphUrl, whitelistUrl, lastWl,
                      inflight>>

(***************************************************************************)
(* The app's operations as they run: each reads the cache when syncStorage *)
(* hands it to the callback, awaits remote I/O (the subgraph, the RPC      *)
(* provider, the whitelist fetch) and saves afterwards; other operations   *)
(* may start and finish in between.                                        *)
(***************************************************************************)
\* getAllGrants(latestBlockNumber) reads the cache; the caller has just read
\* latestBlockNumber from its provider and leaves forceRefresh at its default
GetAllGrantsStart ==
    /\ Cardinality(inflight) < MaxInflight
    /\ inflight' = inflight \cup
         {[fn |-> "getAllGrants", pos |-> 0, blockNumber |-> head,
           forceRefresh |-> FALSE,
           data |-> getStorageKey(localForage, "allGrants")]}
    /\ UNCHANGED <<payoutVars, chainVars, subgraphUrl, whitelistUrl, localForage,
                   refs, delivered, lastSync, lastWl>>

\* the remote data has arrived: getAllGrants merges it into the copy of the
\* cache it read and saves
GetAllGrantsFinish ==
  \E op \in inflight :
  \E sgThrows \in (IF subgraphUrl THEN BOOLEAN ELSE {FALSE}) :
    /\ op.fn = "getAllGrants"
    /\ LET r == getAllGrants(op.data, op.blockNumber, op.forceRefresh, sgThrows)
       IN /\ localForage' = syncStorage(localForage, op.blockNumber, r.saved, r.merged)
          /\ lastSync' = [IdleSync EXCEPT !.fn = "getAllGrants", !.saved = r.saved]
    /\ inflight' = inflight \ {op}
    /\ UNCHANGED <<payoutVars, chainVars, subgraphUrl, whitelistUrl, refs,
                   delivered, lastWl>>

\* a listener callback for the next undelivered event reads the block number
\* and the cache
ListenerStart ==
  /\ delivered < Len(chain)
  /\ Cardinality(inflight) < MaxInflight
  /\ delivered' = delivered + 1
  /\ inflight' = inflight \cup
       {[fn |-> "listener", pos |-> delivered + 1, blockNumber |-> head,
         forceRefresh |-> FALSE,
         data |-> getStorageKey(localForage, "allGrants")]}
  /\ UNCHANGED <<payoutVars, chainVars, subgraphUrl, whitelistUrl, localForage,
                 refs, lastSync, lastWl>>

\* the whitelist fetch of the callback has ended: the callback saves the copy
\* of the cache it read, with its own grant put into it
ListenerFinish ==
  \E op \in inflight :
  \E fetched \in ListenerFetches :
    /\ op.fn = "listener"
    /\ LET r == listener([localForage EXCEPT !["allGrants"] = op.data],
                         EventArgs(chain[op.pos]), fetched)
           whitelisted == [r.approved.store EXCEPT
                             !["allGrants"] = getStorageKey(localForage, "allGrants")]
       IN /\ refs' = IF r.approved.threw
                       THEN [refs EXCEPT !.grants = r.grants]
                       ELSE [grants |-> r.grants,
                             approvedGrants |-> r.approved.grants,
                             approvedGrantsPk |-> r.approved.approvedGrantsPk]
          /\ localForage' = syncStorage(whitelisted, op.blockNumber, r.saved, r.merged)
          /\ lastSync' = [IdleSync EXCEPT !.fn = "listener", !.pos = op.pos,
                            !.saved = r.saved]
    /\ inflight' = inflight \ {op}
    /\ UNCHANGED <<payoutVars, chainVars, subgraphUrl, whitelistUrl, delivered, lastWl>>

\* the grant lists and whitelist bodies getApprovedGrants is called with
WlIds == {0, 1, 2}

InputGrant(n) ==
  [id |-> Num(n), owner |-> Checksum("o1"), payee |-> Checksum("p1"),
   metaPtr |-> "m1", createdAt |-> BlockTime(START_BLOCK),
   lastUpdated |-> BlockTime(START_BLOCK)]

GrantLists == UNION {[1..n -> {InputGrant(k) : k \in WlIds}] : n \in 0..MaxListLen}

Whitelists ==
  {Wl(ids) : ids \in UNION {[1..n -> {Num(k) : k \in WlIds}] : n \in 0..MaxWlLen}}
    \cup {WlNoChain}

Fetches == {NoFetch, [threw |-> FALSE, json |-> JsonNull]}
             \cup {[threw |-> FALSE, json |-> w] : w \in Whitelists}

GetApprovedGrantsCall ==
  \E grants \in GrantLists :
  \E fetched \in (IF whitelistUrl THEN Fetches ELSE {NoFetch}) :
    LET r == getApprovedGrants(grants, fetched, localForage)
        ok == whitelistUrl /\ ~fetched.threw /\ fetched.json.kind # "null"
    IN /\ localForage' = r.store
       /\ lastWl' = [fn |-> "getApprovedGrants", grants |-> grants, fetched |-> fetched,
                     result |-> r.grants, threw |-> r.threw, err |-> r.err,
                     approvedGrantsPk |-> r.approvedGrantsPk,
                     lastGood |-> IF ok THEN [present |-> TRUE, data |-> fetched.json]
                                        ELSE lastWl.lastGood]
       /\ UNCHANGED <<payoutVars, chainVars, subgraphUrl, whitelistUrl, refs,
                      delivered, lastSync, inflight>>

(***************************************************************************)
(* Specifications                                                          *)
(***************************************************************************)
InitPayout ==
  /\ PayoutInit
  /\ ChainInit
  /\ AppInit
  /\ subgraphUrl
  /\ whitelistUrl

NextPayout == PayoutNext /\ UNCHANGED <<chainVars, appVars>>

\* the payout contract and its callers
SpecPayout == InitPayout /\ [][NextPayout]_vars

NextNested == PayoutNextNested /\ UNCHANGED <<chainVars, appVars>>

\* the payout contract with a token that calls back into it
SpecNested == InitPayout /\ [][NextNested]_vars

InitSync ==
  /\ PayoutInit
  /\ ChainInit
  /\ AppInit
  /\ whitelistUrl

ChainNext == (CreateGrant \/ UpdateGrant \/ NewBlock) /\ UNCHANGED <<payoutVars, appVars>>

NextSync == ChainNext \/ GetAllGrantsCall \/ ListenerCallback

\* the grant registry's chain and the app's synchroniser
SpecSync == InitSync /\ [][NextSync]_vars

NextAsync ==
  \/ ChainNext
  \/ GetAllGrantsStart
  \/ GetAllGrantsFinish
  \/ ListenerStart
  \/ ListenerFinish

\* the synchroniser with its operations overlapping in time
InitAsync ==
  /\ InitSync
  /\ ~subgraphUrl

SpecAsync == InitAsync /\ [][NextAsync]_vars

NextWhitelist == GetApprovedGrantsCall

\* direct calls of getApprovedGrants
InitWhitelist ==
  /\ PayoutInit
  /\ ChainInit
  /\ AppInit
  /\ subgraphUrl

SpecWhitelist == InitWhitelist /\ [][NextWhitelist]_vars

(***************************************************************************)
(* Claims about getAllGrants and grantListener (checked under SpecSync)    *)
(***************************************************************************)
CachedGrants == getStorageKey(localForage, "allGrants").grants

\* the step is a getAllGrants call (lastSync' describes it)
IsGetAllGrantsStep ==
  /\ lastSync'.fn = "getAllGrants"
  /\ UNCHANGED <<chain, head, delivered>>

\* what a getAllGrants step fetched
FetchedRows ==
  IF lastSync'.sgQueried /\ ~lastSync'.sgThrows
    THEN recursiveGraphFetch(lastSync'.fromBlock) ELSE <<>>

FetchedTxs ==
  IF lastSync'.rpcScanned
    THEN batchFilterCall("GrantCreated", lastSync'.rpcFrom, lastSync'.latestBlockNumber)
           \o batchFilterCall("GrantUpdated", lastSync'.rpcFrom, lastSync'.latestBlockNumber)
    ELSE <<>>

\* owner, payee, metaPtr and last-updated time of a record, whatever its source
Fields(owner, payee, metaPtr, lastUpdated) ==
  [owner |-> owner.a, payee |-> payee.a, metaPtr |-> metaPtr, lastUpdated |-> lastUpdated]

\* the candidates for grant n in a getAllGrants step: the cached record and
\* everything fetched for n
Candidates(n) ==
  {Fields(CachedGrants[k].owner, CachedGrants[k].payee, CachedGrants[k].metaPtr,
          CachedGrants[k].lastUpdated) :
     k \in {x \in DOMAIN CachedGrants : CachedGrants[x].id.n = n}}
  \cup
  {Fields(FetchedRows[i].owner, FetchedRows[i].payee, FetchedRows[i].metaPtr,
          FetchedRows[i].lastUpdatedTimestamp) :
     i \in {x \in 1..Len(FetchedRows) : FetchedRows[x].id.n = n}}
  \cup
  {Fields(FetchedTxs[i].owner, FetchedTxs[i].payee, FetchedTxs[i].metaPtr,
          FetchedTxs[i].time) :
     i \in {x \in 1..Len(FetchedTxs) : FetchedTxs[x].id.n = n}}

\* C5: after getAllGrants completes, the record the merged mapping holds for
\* every grant is the latest one among the cached record and everything
\* fetched for that grant: it has the greatest last-updated timestamp among
\* them and the owner, payee and metaPtr of a candidate with that timestamp.
C5_MergedIsLatest ==
  [][ IsGetAllGrantsStep =>
        LET merged == CachedGrants'
        IN /\ \A n \in 0..(MaxGrants - 1) :
                Candidates(n) # {} => \E k \in DOMAIN merged : merged[k].id.n = n
           /\ \A k \in DOMAIN merged :
                LET g == merged[k]
                    c == Candidates(g.id.n)
                IN /\ Fields(g.owner, g.payee, g.metaPtr, g.lastUpdated) \in c
                   /\ \A y \in c : y.lastUpdated <= g.lastUpdated
    ]_vars

\* C6: when a subgraph URL is configured and the subgraph request throws,
\* getAllGrants does not fail and scans the logs over RPC from the first
\* uncollected block to latestBlockNumber; when the subgraph request
\* succeeds no RPC scan is made.
C6_SubgraphFallback ==
  lastSync.fn = "getAllGrants" /\ subgraphUrl /\ lastSync.sgQueried =>
    /\ lastSync.sgThrows =>
         /\ ~lastSync.threw
         /\ lastSync.fromBlock <= lastSync.latestBlockNumber =>
              lastSync.rpcScanned /\ lastSync.rpcFrom = lastSync.fromBlock
    /\ ~lastSync.sgThrows => ~lastSync.rpcScanned

RECURSIVE SetOf(_)
SetOf(seq) == IF seq = <<>> THEN {} ELSE {Head(seq)} \cup SetOf(Tail(seq))

\* C7: for the same cached state, the same latestBlockNumber (the head, so
\* that the chain holds nothing later) and the same history, getAllGrants
\* yields the same set of grant records whether the subgraph serves the new
\* data or the RPC log scan does.
C7_SourcesEquivalent ==
  subgraphUrl =>
    \A forceRefresh \in BOOLEAN :
      LET LocalForageData == getStorageKey(localForage, "allGrants")
          viaSubgraph == getAllGrants(LocalForageData, head, forceRefresh, FALSE)
          viaRpc == getAllGrants(LocalForageData, head, forceRefresh, TRUE)
      IN SetOf(viaSubgraph.grants) = SetOf(viaRpc.grants)

NoDupIds(list) ==
  \A i \in 1..Len(list) : \A j \in 1..Len(list) : i # j => list[i].id.n # list[j].id.n

\* C8: the list getAllGrants returns (the values of the mapping it saves) and
\* the list a listener callback writes to refs.grants never hold two records
\* with the same grant id, and every record of the mapping is stored under
\* the key equal to its own id.
C8_DedupById ==
  /\ NoDupIds(refs.grants)
  /\ NoDupIds(ObjectValues(CachedGrants))
  /\ \A k \in DOMAIN CachedGrants : CachedGrants[k].id = k

\* C8 witness: a getAllGrants call merged subgraph rows into a mapping that
\* holds two grants, one of which the listener had written.
C8_Witness ==
  /\ lastSync.fn = "getAllGrants"
  /\ lastSync.sgQueried /\ ~lastSync.sgThrows
  /\ Cardinality(DOMAIN CachedGrants) = 2
  /\ Len(refs.grants) >= 1
  /\ Len(chain) = 2

\* C12: forceRefresh forces the cache to refresh: a getAllGrants call with
\* forceRefresh = true queries a remote source (the subgraph, or the RPC log
\* scan) and merges what it returns, also when the cached block number is
\* equal to or greater than latestBlockNumber, with or without a subgraph URL.
C12_ForceRefresh ==
  lastSync.fn = "getAllGrants" /\ lastSync.forceRefresh =>
    \/ lastSync.sgQueried /\ ~lastSync.sgThrows
    \/ lastSync.rpcScanned

\* the cached mapping reflects event e: it holds a record of e's grant that
\* is at least as recent as e
Reflects(grants, e) ==
  \E k \in DOMAIN grants : grants[k].id.n = e.id /\ grants[k].lastUpdated >= e.time

\* C13: no event is skipped by an incremental sync: after
\* getAllGrants(latestBlockNumber) returns with the cache previously at block
\* B < latestBlockNumber (or empty, starting at START_BLOCK), every
\* GrantCreated and GrantUpdated event of blocks B+1..latestBlockNumber is
\* reflected in the merged grants, with or without a subgraph.
C13_NoEventSkipped ==
  [][ IsGetAllGrantsStep =>
        LET cached == getStorageKey(localForage, "allGrants")
            first == IF cached.present THEN cached.blockNumber + 1 ELSE START_BLOCK
        IN (cached.present => cached.blockNumber < lastSync'.latestBlockNumber) =>
             \A i \in 1..Len(chain) :
               first <= chain[i].block /\ chain[i].block <= lastSync'.latestBlockNumber
                 => Reflects(CachedGrants', chain[i])
    ]_vars

\* the time of the GrantCreated event of grant n (0 when the log has none)
CreationTime(n) ==
  IF \E i \in 1..Len(chain) : chain[i].kind = "GrantCreated" /\ chain[i].id = n
    THEN chain[CHOOSE i \in 1..Len(chain) :
                 chain[i].kind = "GrantCreated" /\ chain[i].id = n].time
    ELSE 0

\* C14: createdAt is the creation time and survives updates: the createdAt of
\* every grant record (cached, or written to refs.grants by the listener)
\* equals the time of the grant's GrantCreated event, whatever GrantUpdated
\* events were merged after it, by getAllGrants or by a listener callback.
C14_CreatedAtKept ==
  /\ \A k \in DOMAIN CachedGrants :
       CachedGrants[k].createdAt = CreationTime(CachedGrants[k].id.n)
  /\ \A i \in 1..Len(refs.grants) :
       refs.grants[i].createdAt = CreationTime(refs.grants[i].id.n)

\* C18: the cached block number never over-states what the cache holds:
\* after any getAllGrants calls and listener callbacks, if the cache records
\* blockNumber B then every GrantCreated / GrantUpdated event of the blocks
\* up to B is reflected in the cached grants.
C18_BlockNumberSound ==
  LET cached == getStorageKey(localForage, "allGrants")
  IN cached.present =>
       \A i \in 1..Len(chain) :
         chain[i].block <= cached.blockNumber => Reflects(cached.grants, chain[i])

\* the step completes an operation that was awaiting remote I/O
IsFinishStep == inflight' # inflight /\ inflight' \subseteq inflight

\* C19: no lost update under interleaving: when listener callbacks, or a
\* callback and a getAllGrants call, overlap in time (each reads the cache,
\* awaits remote I/O and then saves), the cache after an operation completes
\* still holds every grant record the others have written, none replaced by
\* an older one from the completing operation's stale copy of the mapping
\* (the record of the grant a listener callback is itself called for aside).
C19_NoLostUpdate ==
  [][ IsFinishStep =>
        \A k \in DOMAIN CachedGrants :
          \/ /\ lastSync'.fn = "listener"
             /\ CachedGrants[k].id.n = chain[lastSync'.pos].id
          \/ \E k2 \in DOMAIN CachedGrants' :
               /\ CachedGrants'[k2].id.n = CachedGrants[k].id.n
               /\ CachedGrants'[k2].lastUpdated >= CachedGrants[k].lastUpdated
    ]_vars

(***************************************************************************)
(* Claims about getApprovedGrants (checked under SpecWhitelist)            *)
(***************************************************************************)
RECURSIVE IsSubsequence(_, _)
IsSubsequence(a, b) ==
  IF a = <<>> THEN TRUE
  ELSE IF b = <<>> THEN FALSE
  ELSE IF Head(a) = Head(b) THEN IsSubsequence(Tail(a), Tail(b))
  ELSE IsSubsequence(a, Tail(b))

\* result is exactly the grants of input whose id is in ids, in input order
ExactlyTheListed(result, input, ids) ==
  /\ IsSubsequence(result, input)
  /\ \A i \in 1..Len(result) : \E j \in 1..Len(ids) : ids[j] = result[i].id
  /\ Len(result) =
       Cardinality({i \in 1..Len(input) : \E j \in 1..Len(ids) : ids[j] = input[i].id})

FetchFailed(call) == call.fetched.threw \/ call.fetched.json.kind = "null"

C10_WhitelistFallback ==
  [][ lastWl'.fn = "getApprovedGrants" /\ whitelistUrl =>
        LET cached == getStorageKey(localForage, "whitelist")
            entry == ChainEntry(cached.data)
        IN /\ FetchFailed(lastWl') /\ cached.present /\ entry.defined =>
                /\ ~lastWl'.threw
                /\ ExactlyTheListed(lastWl'.result, lastWl'.grants, entry.ids)
                /\ lastWl'.approvedGrantsPk = entry
           /\ FetchFailed(lastWl') /\ ~cached.present =>
                /\ lastWl'.threw
                /\ lastWl'.err = "Failed to load whitelist and couldn't find a cached"
                /\ lastWl'.result = <<>>
           /\ FetchFailed(lastWl') => UNCHANGED localForage
           /\ ~FetchFailed(lastWl') =>
                getStorageKey(localForage', "whitelist")
                  = [present |-> TRUE, data |-> lastWl'.fetched.json]
           /\ getStorageKey(localForage', "whitelist") = lastWl'.lastGood
    ]_vars

\* C10 witness: after a successful fetch had cached a whitelist, a failed
\* fetch was answered from the cache with a non-empty list.
C10_Witness ==
  /\ lastWl.fn = "getApprovedGrants"
  /\ whitelistUrl
  /\ lastWl.fetched.threw
  /\ ~lastWl.threw
  /\ lastWl.lastGood.present
  /\ Len(lastWl.result) = 1
  /\ Len(lastWl.grants) = 2
====
